---- MODULE Spec2Model ----
(***************************************************************************)
(* Media Vault Pro: the folder/media tree, the selection and drag          *)
(* controller and the persistence adapters, as state machines.             *)
(*                                                                         *)
(*   Spec       the localStorage edition (src/unnamed/part_000): every     *)
(*              event handler is one atomic action (single-threaded,       *)
(*              synchronous handlers).                                     *)
(*   SpecPointer  the same edition with the long press and the click       *)
(*              taken apart into pointer-down, timer, pointer-move,        *)
(*              pointer-up and click.                                      *)
(*   SpecRename  the same edition with the rename modal in place of move   *)
(*              and drag.                                                  *)
(*   SpecLogin  the same edition from DOMContentLoaded on: login, logout   *)
(*              and the listeners of every MediaVault constructed.         *)
(*   SpecCsv    parseCSVContent applied to small CSV texts.                *)
(*   SpecLink   extractFileId of the three editions applied to links.      *)
(*   SpecFirebase  the Firebase edition (src/script.js, second class): a   *)
(*              handler runs up to its await; the reads and writes of the  *)
(*              remote document settle later, in their own steps.          *)
(***************************************************************************)
EXTENDS Integers, Sequences, FiniteSets, TLC

\* ------------------------------------------------------------------ bounds
MaxClock    == 2   \* Date.now() takes the values 1..MaxClock
MaxChildren == 2   \* no children list grows longer than this
MaxMedia    == 2   \* media objects ever allocated
MaxSel      == 2   \* a selection is not extended beyond this length
MaxSaves    == 2   \* docRef.set() calls in flight at once
MaxEvents   == 3   \* edits, refreshes, reloads and other tabs' saves in one run of the Firebase edition
MaxLoads    == 1   \* docRef.get() calls in flight at once
MaxTimers   == 2   \* long-press timers pending at once
MaxLine1    == 5   \* characters in the first line of a CSV text
MaxLine2    == 2   \* characters in the second line of a CSV text
MaxParts    == 3   \* pieces a share link is put together from
MaxVaults   == 2   \* MediaVault instances constructed on one page

\* --------------------------------------------------------------- constants
NULL == "null"
ROOT == "root"
Names    == {"Trips"}
MediaIds == {"x"}

\* url.length === 33: a bare Drive file id
BareIdLength == 33

\* no pointer is down on an item
NoPress == [kind |-> "none", pos |-> 0, long |-> FALSE, idle |-> FALSE]

\* 'folder-' + Date.now()
FolderIdAt(t) == "folder-" \o ToString(t)

\* ----------------------------------------------------------------- helpers
EmptyMap == [k \in {} |-> NULL]
Put(f, k, v) == [x \in (DOMAIN f) \cup {k} |-> IF x = k THEN v ELSE f[x]]
Del(f, k) == [x \in (DOMAIN f) \ {k} |-> f[x]]
Without(seq, id) == SelectSeq(seq, LAMBDA x : x # id)
WithoutId(seq, id) == SelectSeq(seq, LAMBDA x : x.id # id)
Range(seq) == {seq[i] : i \in 1..Len(seq)}
RemoveAt(seq, i) == SubSeq(seq, 1, i - 1) \o SubSeq(seq, i + 1, Len(seq))
\* Array.prototype.findIndex(m => m.id === id); 0 stands for -1
FindIndex(seq, id) ==
    IF \E i \in 1..Len(seq) : seq[i].id = id
    THEN CHOOSE i \in 1..Len(seq) : seq[i].id = id /\ \A j \in 1..(i - 1) : seq[j].id # id
    ELSE 0

VARIABLES
    folderStructure,  \* this.folderStructure: id -> [name, parent, children]
    mediaData,        \* this.mediaData: folder id -> sequence of media objects
    currentFolder,    \* this.currentFolder
    selectedItems,    \* this.selectedItems: sequence of [id, type, folderId]
    selectionMode,    \* this.selectionMode
    dragging,         \* this.dragging
    dom,              \* the rendered folder view: folder items, media items, breadcrumb
    modal,            \* the open modal and the options of its <select>
    localStorage,     \* mv_folderStructure / mv_mediaData
    now,              \* the value Date.now() returns
    nextOid,          \* media objects allocated so far
    hung,             \* the page is stuck in a loop that never ends
    lastOp,           \* history: the tree operation the last handler ran, if any
    timers,           \* pending long-press timeouts, oldest first, each with its element
    pressed,          \* the element the pointer went down on and is still down on
    helper,           \* a call of one of the pure helpers: function, argument, result
    page,             \* the login state of the page and the older MediaVault instances
                      \* whose handlers are still registered on it
    \* the Firebase edition
    pc,               \* "boot" (constructed), "init" (initializeApp awaits), "ready"
    userId,           \* this.userId
    remote,           \* the document mediaVault/<userId>
    backup,           \* localStorage mv_local_backup
    syncing,          \* this.syncing
    saves,            \* docRef.set() calls in flight, each with what awaits it
    loads,            \* docRef.get() calls in flight, each with what awaits it
    listening,        \* the onSnapshot listener is attached
    inbox,            \* a snapshot event is waiting for the listener
    lastWritten,      \* history: lastUpdated of the last write of this client that reached remote
    events,           \* edits, refreshes, reloads and other tabs' saves so far
    online,           \* the browser has a connection (window 'online' / 'offline')
    netListener,      \* setupNetworkListener has run on this page
    resync,           \* the 1000ms timer of the 'online' listener is pending
    signIn,           \* "pending", "signedIn" or "failed": how the sign-in of this page went
    others,           \* the document mediaVault/<uid> of another installation
    lastSaved,        \* history: the last set() of this client that completed (none once
                      \* another tab wrote), and how many get() calls were in flight then
    madeOffline       \* history: folders created while offline and not deleted by the user since

\* state only the localStorage edition has, state only the Firebase edition has
lvars == <<dragging, modal, localStorage, nextOid, timers, pressed, helper, page>>
cvars == <<pc, userId, remote, backup, syncing, saves, loads, listening, inbox, lastWritten,
           events, online, netListener, resync, signIn, others, lastSaved, madeOffline>>

vars == <<folderStructure, mediaData, currentFolder, selectedItems, selectionMode,
          dragging, dom, modal, localStorage, now, nextOid, hung, lastOp, timers, pressed, helper, page,
          pc, userId, remote, backup, syncing, saves, loads, listening, inbox, lastWritten,
          events, online, netListener, resync, signIn, others, lastSaved, madeOffline>>

\* ------------------------------------------------------------- the tree store
getDefaultFolderStructure == (ROOT :> [name |-> "Home", children |-> <<>>, parent |-> NULL])
getDefaultMediaData == EmptyMap

\* getFolderPath: the while loop walks parent links; it never ends on a cycle.
RECURSIVE PathWalk(_, _, _, _)
PathWalk(fs, current, seen, path) ==
    IF current = NULL \/ current \notin DOMAIN fs
    THEN [path |-> path, halts |-> TRUE]
    ELSE IF current \in seen
    THEN [path |-> path, halts |-> FALSE]
    ELSE PathWalk(fs, fs[current].parent, seen \cup {current},
                  <<[id |-> current, name |-> fs[current].name]>> \o path)

getFolderPath(fs, folderId) == PathWalk(fs, folderId, {}, <<>>)

\* createFoldersGrid: one .folder-item per child that exists
createFoldersGrid(fs, folder) ==
    LET kids == SelectSeq(folder.children, LAMBDA c : c \in DOMAIN fs)
    IN [i \in 1..Len(kids) |-> [id |-> kids[i], sel |-> FALSE]]

\* createMediaGrid: one .media-item per entry of mediaData[folderId] || []
createMediaGrid(md, folderId) ==
    LET items == IF folderId \in DOMAIN md THEN md[folderId] ELSE <<>>
    IN [i \in 1..Len(items) |-> [id |-> items[i].id, sel |-> FALSE]]

\* the class 'selected' of the element a timer holds
HasSelected(d, t) ==
    IF ~t.attached THEN t.sel
    ELSE IF t.kind = "folder" THEN d.folders[t.pos].sel ELSE d.media[t.pos].sel

\* two timers hold the same element
SameElement(a, b) ==
    /\ a.kind = b.kind
    /\ a.pos = b.pos
    /\ a.attached = b.attached
    /\ a.attached \/ a.batch = b.batch

\* contentDiv.innerHTML = ...: the elements of the old view leave the
\* document; a pending timer keeps its element, with the class it had
Detach(ts, d) ==
    LET used == {ts[n].batch : n \in {m \in DOMAIN ts : ~ts[m].attached}}
        free == CHOOSE b \in 1..(Len(ts) + 1) :
                    b \notin used /\ \A c \in 1..(b - 1) : c \in used
    IN [n \in DOMAIN ts |->
          IF ts[n].attached
          THEN [ts[n] EXCEPT !.attached = FALSE, !.sel = HasSelected(d, ts[n]), !.batch = free]
          ELSE ts[n]]

\* buildFolderUI(folderId) on the handler state s
buildFolderUI(s, folderId) ==
    LET fid == IF folderId \in DOMAIN s.fs THEN folderId ELSE ROOT
        p == getFolderPath(s.fs, fid)
        crumbs == [i \in 1..Len(p.path) |-> p.path[i].id]
    IN IF ~p.halts
       THEN [s EXCEPT !.cur = fid, !.st = "hung"]
       ELSE IF fid \notin DOMAIN s.fs
       THEN \* createFolderUI reads folder.name of undefined
            [s EXCEPT !.cur = fid, !.dom.crumbs = crumbs, !.st = "threw"]
       ELSE [s EXCEPT !.cur = fid,
                      !.dom = [folder |-> fid,
                               folders |-> createFoldersGrid(s.fs, s.fs[fid]),
                               media |-> createMediaGrid(s.md, fid),
                               crumbs |-> crumbs],
                      !.timers = Detach(@, s.dom),
                      !.pressed = NoPress]

saveData(s) == [s EXCEPT !.ls = [has |-> TRUE, fs |-> s.fs, md |-> s.md]]

\* ------------------------------------------------------------ selection
updateSelectionToolbar(s) ==
    IF Len(s.sel) > 0 THEN s ELSE [s EXCEPT !.mode = FALSE]

\* toggleItemSelection(item), item the i-th element of the given kind
toggleItemSelection(s, kind, i) ==
    LET el == IF kind = "folder" THEN s.dom.folders[i] ELSE s.dom.media[i]
        folderId == IF kind = "folder" THEN el.id ELSE s.dom.folder
        flip == IF kind = "folder"
                THEN [s EXCEPT !.dom.folders[i].sel = ~el.sel]
                ELSE [s EXCEPT !.dom.media[i].sel = ~el.sel]
    IN updateSelectionToolbar(
         IF el.sel
         THEN [flip EXCEPT !.sel = WithoutId(s.sel, el.id)]
         ELSE [flip EXCEPT !.sel = Append(s.sel,
                               [id |-> el.id, type |-> kind, folderId |-> folderId])])

enterSelectionMode(s, kind, i) ==
    toggleItemSelection([s EXCEPT !.mode = TRUE], kind, i)

\* the item a click or a press on the i-th element of the given kind names
ItemOf(d, kind, i) ==
    IF kind = "folder"
    THEN [id |-> d.folders[i].id, type |-> kind, folderId |-> d.folders[i].id]
    ELSE [id |-> d.media[i].id, type |-> kind, folderId |-> d.folder]

\* handleClick: the document's click listener, the click on a folder or media item
handleClick(s, kind, i) ==
    IF s.mode
    THEN toggleItemSelection([s EXCEPT !.op = [op |-> "toggleItemSelection",
                                               items |-> <<ItemOf(s.dom, kind, i)>>,
                                               target |-> NULL, done |-> {}]], kind, i)
    ELSE s

cancelSelection(s) ==
    [s EXCEPT !.sel = <<>>, !.mode = FALSE,
              !.dom.folders = [i \in 1..Len(s.dom.folders) |-> [s.dom.folders[i] EXCEPT !.sel = FALSE]],
              !.dom.media = [i \in 1..Len(s.dom.media) |-> [s.dom.media[i] EXCEPT !.sel = FALSE]]]

\* ------------------------------------------------------------ move
\* the forEach body of moveSelectedItemsToFolder for one selected item
\* the splice without the push: the item leaves its list and arrives nowhere
MoveOne_lossy(s, item, targetFolderId) ==
    IF item.type = "media" /\ item.folderId \in DOMAIN s.md
    THEN [s EXCEPT !.md[item.folderId] = SelectSeq(@, LAMBDA m : m.id # item.id)]
    ELSE s

MoveOne(s, item, targetFolderId) ==
    IF item.type = "media"
    THEN LET mediaArray == IF item.folderId \in DOMAIN s.md THEN s.md[item.folderId] ELSE <<>>
             mediaIndex == FindIndex(mediaArray, item.id)
         IN IF mediaIndex = 0 THEN s
            ELSE LET md1 == [s.md EXCEPT ![item.folderId] = RemoveAt(mediaArray, mediaIndex)]
                     md2 == IF targetFolderId \in DOMAIN md1 THEN md1
                            ELSE Put(md1, targetFolderId, <<>>)
                 IN [s EXCEPT !.md = [md2 EXCEPT ![targetFolderId] =
                                          Append(@, mediaArray[mediaIndex])]]
    ELSE IF item.id \in DOMAIN s.fs /\ s.fs[item.id].parent # targetFolderId
    THEN LET p == s.fs[item.id].parent
             fs1 == IF p \in DOMAIN s.fs
                    THEN [s.fs EXCEPT ![p].children = Without(@, item.id)]
                    ELSE s.fs
             fs2 == [fs1 EXCEPT ![item.id].parent = targetFolderId]
         IN IF targetFolderId \notin DOMAIN fs2
            THEN [s EXCEPT !.fs = fs2, !.st = "threw"]
            ELSE [s EXCEPT !.fs = [fs2 EXCEPT ![targetFolderId].children = Append(@, item.id)]]
    ELSE s

RECURSIVE MoveEach(_, _, _, _)
MoveEach(s, items, i, targetFolderId) ==
    IF i > Len(items) \/ s.st # "ok" THEN s
    ELSE MoveEach(MoveOne(s, items[i], targetFolderId), items, i + 1, targetFolderId)

\* what follows the forEach when nothing threw
Then(s, Op(_)) == IF s.st = "ok" THEN Op(s) ELSE s

moveSelectedItemsToFolder(s, targetFolderId) ==
    IF Len(s.sel) = 0 THEN s
    ELSE LET s0 == [s EXCEPT !.op = [op |-> "moveSelectedItemsToFolder",
                                     items |-> s.sel, target |-> targetFolderId,
                                     done |-> {}]]
             s1 == MoveEach(s0, s.sel, 1, targetFolderId)
             s2 == Then(s1, saveData)
             s3 == Then(s2, LAMBDA t : buildFolderUI(t, t.cur))
         IN Then(s3, cancelSelection)

\* ------------------------------------------------------------ delete
\* A call chain deeper than this revisits a folder with nothing changed in
\* between, so the recursion never returns: the engine raises RangeError.
StackLimit(fs) == (Cardinality(DOMAIN fs) + 1) * (Cardinality(DOMAIN fs) * (MaxChildren + 3) + 1)

RECURSIVE deleteFolderAt(_, _, _), DeleteKids(_, _, _, _)
deleteFolderAt(s, folderId, depth) ==
    IF folderId \notin DOMAIN s.fs THEN s
    ELSE IF depth = 0 THEN [s EXCEPT !.st = "threw"]
    ELSE LET p == s.fs[folderId].parent
             s1 == IF p # NULL /\ p \in DOMAIN s.fs
                   THEN [s EXCEPT !.fs[p].children = Without(@, folderId)]
                   ELSE s
             s2 == DeleteKids(s1, s1.fs[folderId].children, 1, depth - 1)
         IN IF s2.st # "ok" THEN s2
            ELSE [s2 EXCEPT !.fs = Del(s2.fs, folderId), !.md = Del(s2.md, folderId),
                            !.op.done = @ \cup {folderId}]

DeleteKids(s, kids, i, depth) ==
    IF i > Len(kids) \/ s.st # "ok" THEN s
    ELSE DeleteKids(deleteFolderAt(s, kids[i], depth), kids, i + 1, depth)

\* deleteFolder without the recursion into the children
deleteFolder_flat(s, folderId) ==
    IF folderId \notin DOMAIN s.fs THEN s
    ELSE LET p == s.fs[folderId].parent
             s1 == IF p # NULL /\ p \in DOMAIN s.fs
                   THEN [s EXCEPT !.fs[p].children = Without(@, folderId)]
                   ELSE s
         IN [s1 EXCEPT !.fs = Del(s1.fs, folderId), !.md = Del(s1.md, folderId),
                       !.op.done = @ \cup {folderId}]
deleteFolder(s, folderId) == deleteFolderAt(s, folderId, StackLimit(s.fs))

DeleteOne(s, item) ==
    IF item.type = "media"
    THEN IF item.folderId \notin DOMAIN s.md
         THEN [s EXCEPT !.st = "threw"]   \* undefined.filter
         ELSE [s EXCEPT !.md[item.folderId] = WithoutId(@, item.id)]
    ELSE deleteFolder(s, item.id)

RECURSIVE DeleteEach(_, _, _)
DeleteEach(s, items, i) ==
    IF i > Len(items) \/ s.st # "ok" THEN s
    ELSE DeleteEach(DeleteOne(s, items[i]), items, i + 1)

\* deleteSelectedItems once confirm() has answered yes
deleteSelectedItems(s) ==
    IF Len(s.sel) = 0 THEN s
    ELSE LET s0 == [s EXCEPT !.op = [op |-> "deleteSelectedItems",
                                     items |-> s.sel, target |-> NULL, done |-> {}]]
             s1 == DeleteEach(s0, s.sel, 1)
             s2 == Then(s1, saveData)
             s3 == Then(s2, LAMBDA t : buildFolderUI(t, t.cur))
         IN Then(s3, cancelSelection)

\* ------------------------------------------------------------ create, add
createFolder(s, name, clock) ==
    LET folderId == FolderIdAt(clock)
        fs1 == Put(s.fs, folderId, [name |-> name, parent |-> s.cur, children |-> <<>>])
        call == [op |-> "createFolder", target |-> s.cur, done |-> {},
                 items |-> <<[type |-> "folder", id |-> folderId, folderId |-> folderId]>>]
    IN IF s.cur \notin DOMAIN fs1
       THEN [s EXCEPT !.fs = fs1, !.st = "threw", !.op = call]
       ELSE LET s1 == [s EXCEPT !.fs = [fs1 EXCEPT ![s.cur].children = Append(@, folderId)],
                                !.md = Put(s.md, folderId, <<>>),
                                !.op = call]
            IN Then(saveData(s1), LAMBDA t : buildFolderUI(t, t.cur))

addMedia(s, fileId, oid) ==
    LET mediaItem == [id |-> fileId, type |-> "video", title |-> "Media", oid |-> oid]
        md1 == IF s.cur \in DOMAIN s.md THEN s.md ELSE Put(s.md, s.cur, <<>>)
        s1 == [s EXCEPT !.md = [md1 EXCEPT ![s.cur] = Append(@, mediaItem)]]
    IN Then(saveData(s1), LAMBDA t : buildFolderUI(t, t.cur))

\* ------------------------------------------------------------ handler state
NoModal == [open |-> "none", options |-> {}]
NoCall == [op |-> "none", items |-> <<>>, target |-> NULL, done |-> {}]
NoOp == [op |-> "none", items |-> <<>>, target |-> NULL, done |-> {}, st |-> "ok"]
\* no helper is being called
NoFn == [fn |-> "none", input |-> <<>>, done |-> FALSE, out |-> NULL]

\* the page of a visitor who is logged in: one MediaVault, initialized once
OnePage == [loggedIn |-> TRUE, initialized |-> TRUE, gallery |-> TRUE, loginBtn |-> FALSE,
            vaults |-> <<>>, inits |-> 1, owner |-> 1, handled |-> 0]

\* no document, no backup
NoDoc == [exists |-> FALSE, fs |-> EmptyMap, md |-> EmptyMap, lastUpdated |-> 0]
\* no completed set()
NoSave == [exists |-> FALSE, fs |-> EmptyMap, md |-> EmptyMap, k |-> "none", racing |-> 0]

Here == [fs |-> folderStructure, md |-> mediaData, cur |-> currentFolder,
         sel |-> selectedItems, mode |-> selectionMode, dom |-> dom,
         ls |-> localStorage, st |-> "ok", op |-> NoCall,
         timers |-> timers, pressed |-> pressed]

\* the state a handler leaves behind: an exception ends the handler, a loop
\* that never ends freezes the page
Assign(s) ==
    /\ \A f \in DOMAIN s.fs : Len(s.fs[f].children) <= MaxChildren
    /\ folderStructure' = s.fs
    /\ mediaData' = s.md
    /\ currentFolder' = s.cur
    /\ selectedItems' = s.sel
    /\ selectionMode' = s.mode
    /\ dom' = s.dom
    /\ localStorage' = s.ls
    /\ hung' = (s.st = "hung")
    /\ timers' = s.timers
    /\ pressed' = s.pressed
    /\ helper' = helper
    /\ lastOp' = [op |-> s.op.op, items |-> s.op.items, target |-> s.op.target,
                  done |-> s.op.done, st |-> s.st]

\* the same in the localStorage edition, which has no cloud state
Becomes(s) == Assign(s) /\ page' = page /\ UNCHANGED cvars

\* no modal is open, nothing is dragged and no pointer is down
Idle == ~hung /\ modal.open = "none" /\ ~dragging /\ pressed = NoPress

EmptyDom == [folder |-> ROOT, folders |-> <<>>, media |-> <<>>, crumbs |-> <<>>]

\* constructor + initializeApp: loadData, then buildFolderUI('root')
Started(ls) ==
    buildFolderUI([fs |-> IF ls.has THEN ls.fs ELSE getDefaultFolderStructure,
                   md |-> IF ls.has THEN ls.md ELSE getDefaultMediaData,
                   cur |-> ROOT, sel |-> <<>>, mode |-> FALSE, dom |-> EmptyDom,
                   ls |-> ls, st |-> "ok", op |-> NoCall,
                   timers |-> <<>>, pressed |-> NoPress], ROOT)

StartState(c) ==
    LET s == Started([has |-> FALSE, fs |-> EmptyMap, md |-> EmptyMap])
    IN /\ folderStructure = s.fs
       /\ mediaData = s.md
       /\ currentFolder = s.cur
       /\ selectedItems = s.sel
       /\ selectionMode = s.mode
       /\ dom = s.dom
       /\ localStorage = s.ls
       /\ hung = FALSE
       /\ dragging = FALSE
       /\ modal = NoModal
       /\ now = 1
       /\ nextOid = 1
       /\ lastOp = NoOp
       /\ timers = <<>>
       /\ pressed = NoPress
       /\ pc = "ready"
       /\ userId = NULL
       /\ remote = NoDoc
       /\ backup = NoDoc
       /\ syncing = FALSE
       /\ saves = <<>>
       /\ loads = <<>>
       /\ listening = FALSE
       /\ inbox = FALSE
       /\ lastWritten = 0
       /\ events = 0
       /\ online = TRUE
       /\ netListener = FALSE
       /\ resync = FALSE
       /\ signIn = "pending"
       /\ others = NoDoc
       /\ lastSaved = NoSave
       /\ madeOffline = {}
       /\ helper = c
       /\ page = OnePage

Init == StartState(NoFn)

\* ------------------------------------------------------------ actions
\* the clock advances
Tick ==
    /\ now < MaxClock
    /\ now' = now + 1
    /\ UNCHANGED <<folderStructure, mediaData, currentFolder, selectedItems, selectionMode,
                   dragging, dom, modal, localStorage, nextOid, hung, timers, pressed,
                   helper, page>>
    /\ lastOp' = NoOp
    /\ UNCHANGED cvars

CanSelect(kind, i) ==
    LET el == IF kind = "folder" THEN dom.folders[i] ELSE dom.media[i]
    IN el.sel \/ Len(selectedItems) < MaxSel

Elements(kind) == IF kind = "folder" THEN DOMAIN dom.folders ELSE DOMAIN dom.media

\* a click on a folder item: the container's listener navigates unless in
\* selection mode, then the document's handleClick toggles if in selection mode
ClickFolderItem(i) ==
    /\ Idle
    /\ i \in DOMAIN dom.folders
    /\ selectionMode => CanSelect("folder", i)
    /\ Becomes(IF selectionMode THEN toggleItemSelection(Here, "folder", i)
               ELSE buildFolderUI(Here, dom.folders[i].id))
    /\ UNCHANGED <<dragging, modal, now, nextOid>>

\* a click on a media item in selection mode
ClickMediaItem(i) ==
    /\ Idle
    /\ i \in DOMAIN dom.media
    /\ selectionMode
    /\ CanSelect("media", i)
    /\ Becomes(toggleItemSelection(Here, "media", i))
    /\ UNCHANGED <<dragging, modal, now, nextOid>>

\* mousedown / touchstart outside selection mode, then the 500ms timer fires
LongPress(kind, i) ==
    /\ Idle
    /\ ~selectionMode
    /\ i \in Elements(kind)
    /\ CanSelect(kind, i)
    /\ Becomes(enterSelectionMode(Here, kind, i))
    /\ UNCHANGED <<dragging, modal, now, nextOid>>

\* the delete button of a folder item
ClickFolderOptionDelete(i, yes) ==
    /\ Idle
    /\ i \in DOMAIN dom.folders
    /\ CanSelect("folder", i)
    /\ LET s1 == IF selectionMode THEN toggleItemSelection(Here, "folder", i)
                 ELSE enterSelectionMode(Here, "folder", i)
       IN Becomes(IF yes THEN deleteSelectedItems(s1) ELSE s1)
    /\ UNCHANGED <<dragging, modal, now, nextOid>>

ClickBreadcrumb(i) ==
    /\ Idle
    /\ i \in DOMAIN dom.crumbs
    /\ Becomes(buildFolderUI(Here, dom.crumbs[i]))
    /\ UNCHANGED <<dragging, modal, now, nextOid>>

ClickRefresh ==
    /\ Idle
    /\ Becomes(buildFolderUI(Here, currentFolder))
    /\ UNCHANGED <<dragging, modal, now, nextOid>>

\* the toolbar (shown while something is selected)
ClickDeleteBtn ==
    /\ Idle
    /\ Len(selectedItems) > 0
    /\ Becomes(deleteSelectedItems(Here))
    /\ UNCHANGED <<dragging, modal, now, nextOid>>

ClickCancelOrg ==
    /\ Idle
    /\ Len(selectedItems) > 0
    /\ Becomes(cancelSelection(Here))
    /\ UNCHANGED <<dragging, modal, now, nextOid>>

\* showMoveToModal: every folder but the current one, the selected ones and root
MoveTargets ==
    {f \in DOMAIN folderStructure :
        /\ f # currentFolder
        /\ ~\E k \in DOMAIN selectedItems : selectedItems[k].id = f
        /\ f # ROOT}

ClickMoveToBtn ==
    /\ Idle
    /\ Len(selectedItems) > 0
    /\ modal' = [open |-> "move", options |-> MoveTargets]
    /\ UNCHANGED <<folderStructure, mediaData, currentFolder, selectedItems, selectionMode,
                   dragging, dom, localStorage, now, nextOid, hung, timers, pressed,
                   helper, page>>
    /\ lastOp' = NoOp
    /\ UNCHANGED cvars

\* moveSelectedItems: the chosen option, then hideMoveToModal
ConfirmMove(targetFolderId) ==
    /\ ~hung
    /\ modal.open = "move"
    /\ targetFolderId \in modal.options
    /\ Becomes(moveSelectedItemsToFolder(Here, targetFolderId))
    /\ modal' = IF moveSelectedItemsToFolder(Here, targetFolderId).st = "ok"
                THEN NoModal ELSE modal
    /\ UNCHANGED <<dragging, now, nextOid>>

CancelMove ==
    /\ ~hung
    /\ modal.open = "move"
    /\ modal' = NoModal
    /\ UNCHANGED <<folderStructure, mediaData, currentFolder, selectedItems, selectionMode,
                   dragging, dom, localStorage, now, nextOid, hung, timers, pressed,
                   helper, page>>
    /\ lastOp' = NoOp
    /\ UNCHANGED cvars

\* drag and drop
DragStart ==
    /\ Idle
    /\ Len(dom.folders) + Len(dom.media) > 0
    /\ Len(selectedItems) > 0
    /\ dragging' = TRUE
    /\ UNCHANGED <<folderStructure, mediaData, currentFolder, selectedItems, selectionMode,
                   dom, modal, localStorage, now, nextOid, hung, timers, pressed,
                   helper, page>>
    /\ lastOp' = NoOp
    /\ UNCHANGED cvars

DropTargets == {dom.folders[i].id : i \in DOMAIN dom.folders} \cup Range(dom.crumbs)

\* drop on a folder item or a breadcrumb item
Drop(targetFolderId) ==
    /\ ~hung
    /\ dragging
    /\ targetFolderId \in DropTargets
    /\ Becomes(IF targetFolderId # currentFolder
               THEN moveSelectedItemsToFolder(Here, targetFolderId)
               ELSE Here)
    /\ dragging' = (targetFolderId # currentFolder
                    /\ moveSelectedItemsToFolder(Here, targetFolderId).st # "ok")
    /\ UNCHANGED <<modal, now, nextOid>>

\* dragend, also after a drop outside every target
DragEnd ==
    /\ ~hung
    /\ dragging
    /\ dragging' = FALSE
    /\ UNCHANGED <<folderStructure, mediaData, currentFolder, selectedItems, selectionMode,
                   dom, modal, localStorage, now, nextOid, hung, timers, pressed,
                   helper, page>>
    /\ lastOp' = NoOp
    /\ UNCHANGED cvars

\* the create-folder modal confirmed with a name that is not blank
CreateFolder(name) ==
    /\ Idle
    /\ Becomes(createFolder(Here, name, now))
    /\ UNCHANGED <<dragging, modal, now, nextOid>>

\* the add-media modal confirmed with a link extractFileId resolves to fileId
AddMedia(fileId) ==
    /\ Idle
    /\ nextOid <= MaxMedia
    /\ Becomes(addMedia(Here, fileId, nextOid))
    /\ nextOid' = nextOid + 1
    /\ UNCHANGED <<dragging, modal, now>>

\* the page is loaded again: a new MediaVault reads localStorage
Reload ==
    /\ Becomes(Started(localStorage))
    /\ dragging' = FALSE
    /\ modal' = NoModal
    /\ UNCHANGED <<now, nextOid>>

Next ==
    \/ Tick
    \/ \E i \in 1..MaxChildren : ClickFolderItem(i)
    \/ \E i \in 1..MaxMedia : ClickMediaItem(i)
    \/ \E kind \in {"folder", "media"}, i \in 1..MaxMedia : LongPress(kind, i)
    \/ \E i \in 1..MaxChildren, yes \in BOOLEAN : ClickFolderOptionDelete(i, yes)
    \/ \E i \in 1..(MaxClock + 1) : ClickBreadcrumb(i)
    \/ ClickRefresh
    \/ ClickDeleteBtn
    \/ ClickCancelOrg
    \/ ClickMoveToBtn
    \/ \E t \in DOMAIN folderStructure : ConfirmMove(t)
    \/ CancelMove
    \/ DragStart
    \/ \E t \in DropTargets : Drop(t)
    \/ DragEnd
    \/ \E name \in Names : CreateFolder(name)
    \/ \E fileId \in MediaIds : AddMedia(fileId)
    \/ Reload

Spec == Init /\ [][Next]_vars

\* ============================================================ rename
\* The localStorage edition with the rename modal instead of move and drag.
NewNames == {"", " ", "Renamed"}

\* String.prototype.trim on the texts of NewNames
trim(str) == IF str \in {"", " "} THEN "" ELSE str

\* the item of the selection is in the snapshot
Present(fs, md, item) ==
    IF item.type = "folder" THEN item.id \in DOMAIN fs
    ELSE item.folderId \in DOMAIN md /\ FindIndex(md[item.folderId], item.id) > 0

\* showRenameModal: st says whether it got to open the modal
showRenameModal(s) ==
    IF Len(s.sel) # 1 THEN [s EXCEPT !.st = "alert"]
    ELSE IF s.sel[1].type = "folder" /\ s.sel[1].id \notin DOMAIN s.fs
    THEN [s EXCEPT !.st = "threw"]
    ELSE s

\* renameSelectedItem with the text of the input; hideRenameModal follows
\* buildFolderUI, so st = "ok" says the modal was closed
renameSelectedItem(s, text) ==
    LET newName == trim(text)
        item == s.sel[1]
        s0 == [s EXCEPT !.op = [op |-> "renameSelectedItem", items |-> s.sel,
                                target |-> newName, done |-> {}]]
    IN IF newName = "" THEN [s0 EXCEPT !.st = "alert"]
       ELSE LET s1 == IF item.type = "folder"
                      THEN IF item.id \in DOMAIN s.fs
                           THEN [s0 EXCEPT !.fs[item.id].name = newName]
                           ELSE [s0 EXCEPT !.st = "threw"]
                      ELSE IF Present(s.fs, s.md, item)
                           THEN [s0 EXCEPT !.md[item.folderId][FindIndex(s.md[item.folderId],
                                                                      item.id)].title = newName]
                           ELSE s0
                s2 == Then(s1, saveData)
                s3 == Then(s2, LAMBDA t : buildFolderUI(t, t.cur))
            IN Then(s3, cancelSelection)

\* what an alert or an exception leaves: the state the handler had reached
Settled(s) == IF s.st = "alert" THEN [s EXCEPT !.st = "ok"] ELSE s

\* the toolbar's rename button
ClickRenameBtn ==
    /\ Idle
    /\ Len(selectedItems) > 0
    /\ Becomes(Settled(showRenameModal(Here)))
    /\ modal' = IF showRenameModal(Here).st = "ok"
                THEN [open |-> "rename", options |-> {}] ELSE modal
    /\ UNCHANGED <<dragging, now, nextOid>>

\* the rename button of a folder item
ClickFolderOptionRename(i) ==
    /\ Idle
    /\ i \in DOMAIN dom.folders
    /\ CanSelect("folder", i)
    /\ LET s1 == IF selectionMode THEN toggleItemSelection(Here, "folder", i)
                 ELSE enterSelectionMode(Here, "folder", i)
       IN /\ Becomes(Settled(showRenameModal(s1)))
          /\ modal' = IF showRenameModal(s1).st = "ok"
                      THEN [open |-> "rename", options |-> {}] ELSE modal
    /\ UNCHANGED <<dragging, now, nextOid>>

ConfirmRename(text) ==
    /\ ~hung
    /\ modal.open = "rename"
    /\ Becomes(Settled(renameSelectedItem(Here, text)))
    /\ modal' = IF renameSelectedItem(Here, text).st = "ok" THEN NoModal ELSE modal
    /\ UNCHANGED <<dragging, now, nextOid>>

CancelRename ==
    /\ ~hung
    /\ modal.open = "rename"
    /\ modal' = NoModal
    /\ UNCHANGED <<folderStructure, mediaData, currentFolder, selectedItems, selectionMode,
                   dragging, dom, localStorage, now, nextOid, hung, timers, pressed,
                   helper, page>>
    /\ lastOp' = NoOp
    /\ UNCHANGED cvars

NextRename ==
    \/ Tick
    \/ \E i \in 1..MaxChildren : ClickFolderItem(i)
    \/ \E i \in 1..MaxMedia : ClickMediaItem(i)
    \/ \E kind \in {"folder", "media"}, i \in 1..MaxMedia : LongPress(kind, i)
    \/ \E i \in 1..(MaxClock + 1) : ClickBreadcrumb(i)
    \/ ClickDeleteBtn
    \/ ClickCancelOrg
    \/ ClickRenameBtn
    \/ \E i \in 1..MaxChildren : ClickFolderOptionRename(i)
    \/ \E text \in NewNames : ConfirmRename(text)
    \/ CancelRename
    \/ \E name \in Names : CreateFolder(name)
    \/ \E fileId \in MediaIds : AddMedia(fileId)

SpecRename == Init /\ [][NextRename]_vars

\* ============================================================ CSV import
\* parseCSVContent of the GitHub edition. A text is the sequence of its lines
\* (csvText.split('\n')), a line a sequence of characters.
CsvChars == {"I", "d", ",", " "}
LinesUpTo(n) == UNION {[1..k -> CsvChars] : k \in 0..n}
CsvTexts ==
    {<<a>> : a \in LinesUpTo(MaxLine1)}
        \cup {<<a, b>> : a \in LinesUpTo(MaxLine1), b \in LinesUpTo(MaxLine2)}

\* String.prototype.toLowerCase
toLowerCase(str) == [n \in DOMAIN str |-> IF str[n] = "I" THEN "i" ELSE str[n]]

\* String.prototype.trim
RECURSIVE trimStart(_), trimEnd(_)
trimStart(str) == IF str # <<>> /\ Head(str) = " " THEN trimStart(Tail(str)) ELSE str
trimEnd(str) ==
    IF str # <<>> /\ str[Len(str)] = " " THEN trimEnd(SubSeq(str, 1, Len(str) - 1)) ELSE str
trimChars(str) == trimEnd(trimStart(str))

\* str has pat at offset n (0-based)
HasAt(str, pat, n) == n + Len(pat) <= Len(str) /\ SubSeq(str, n + 1, n + Len(pat)) = pat
\* String.prototype.includes
includes(str, pat) == \E n \in 0..Len(str) : HasAt(str, pat, n)

\* String.prototype.split(sep), sep one character
RECURSIVE split(_, _)
split(str, sep) ==
    IF \A n \in DOMAIN str : str[n] # sep THEN <<str>>
    ELSE LET n == CHOOSE m \in DOMAIN str : str[m] = sep /\ \A j \in 1..(m - 1) : str[j] # sep
         IN <<SubSeq(str, 1, n - 1)>> \o split(SubSeq(str, n + 1, Len(str)), sep)

HeaderMark == <<"i", "d", ",">>

\* the for loop of parseCSVContent from index i (1-based) on
RECURSIVE ParseRows(_, _)
ParseRows(lines, i) ==
    IF i > Len(lines) THEN <<>>
    ELSE LET line == trimChars(lines[i])
             raw == split(line, ",")
             columns == [n \in DOMAIN raw |-> trimChars(raw[n])]
             rest == ParseRows(lines, i + 1)
         IN IF line # <<>> /\ Len(columns) >= 2 /\ columns[1] # <<>> /\ columns[2] # <<>>
            THEN <<[id |-> columns[1], type |-> toLowerCase(columns[2])]>> \o rest
            ELSE rest

\* parseCSVContent(csvText): lines[0] of an empty array is undefined, and
\* undefined.toLowerCase() throws
parseCSVContent(csvText) ==
    LET lines == SelectSeq(csvText, LAMBDA line : trimChars(line) # <<>>)
    IN IF lines = <<>> THEN [st |-> "threw", items |-> <<>>]
       ELSE LET startIndex == IF includes(toLowerCase(lines[1]), HeaderMark) THEN 1 ELSE 0
            IN [st |-> "ok", items |-> ParseRows(lines, startIndex + 1)]

\* processCSVFile hands the text of a file to parseCSVContent
ParseCSV ==
    /\ helper.fn = "parseCSVContent"
    /\ ~helper.done
    /\ helper' = [helper EXCEPT !.done = TRUE, !.out = parseCSVContent(helper.input)]
    /\ UNCHANGED <<folderStructure, mediaData, currentFolder, selectedItems, selectionMode,
                   dom, now, hung, lastOp>>
    /\ UNCHANGED <<dragging, modal, localStorage, nextOid, timers, pressed, page>>
    /\ UNCHANGED cvars

InitCsv ==
    \E csvText \in CsvTexts :
        StartState([fn |-> "parseCSVContent", input |-> csvText, done |-> FALSE,
                    out |-> [st |-> "ok", items |-> <<>>]])

NextCsv == ParseCSV

SpecCsv == InitCsv /\ [][NextCsv]_vars

\* ============================================================ share links
\* extractFileId of the three editions, on links put together from the pieces
\* the patterns look for.
LinkParts ==
    {<<"/", "f", "i", "l", "e", "/", "d", "/">>,
     <<"/", "d", "/">>,
     <<"i", "d", "=">>,
     <<"/">>, <<"=">>, <<"?">>, <<"&">>,
     <<"A">>,
     [n \in 1..(BareIdLength - 1) |-> "A"],
     <<"d", "r", "i", "v", "e", ".", "g", "o", "o", "g", "l", "e", ".", "c", "o", "m">>,
     <<"h", "t", "t", "p", "s", ":", "/", "/">>}

RECURSIVE Flatten(_)
Flatten(parts) == IF parts = <<>> THEN <<>> ELSE Head(parts) \o Flatten(Tail(parts))

Links == {Flatten(parts) : parts \in UNION {[1..k -> LinkParts] : k \in 0..MaxParts}}
Editions == {"local", "github", "firebase"}

NoId == [st |-> "ok", found |-> FALSE, id |-> <<>>]
Id(chars) == [st |-> "ok", found |-> TRUE, id |-> chars]

\* the longest run of characters other than stop that starts at offset n
RECURSIVE RunFrom(_, _, _)
RunFrom(str, n, stop) ==
    IF n >= Len(str) \/ str[n + 1] = stop THEN <<>>
    ELSE <<str[n + 1]>> \o RunFrom(str, n + 1, stop)

\* url.match(/prefix([^stop]+)/): the capture of the leftmost match, or <<>>
Capture(url, prefix, stop) ==
    LET starts == {n \in 0..Len(url) : HasAt(url, prefix, n)
                                        /\ RunFrom(url, n + Len(prefix), stop) # <<>>}
    IN IF starts = {} THEN <<>>
       ELSE LET n == CHOOSE m \in starts : \A k \in starts : m <= k
            IN RunFrom(url, n + Len(prefix), stop)

\* the loop over the patterns; the fourth pattern of the cloud editions has no
\* group, so match[1] is undefined and it returns nothing
MatchPatterns(url) ==
    LET fileD == Capture(url, <<"/", "f", "i", "l", "e", "/", "d", "/">>, "/")
        idEq == Capture(url, <<"i", "d", "=">>, "&")
        d == Capture(url, <<"/", "d", "/">>, "/")
    IN IF fileD # <<>> THEN Id(fileD)
       ELSE IF idEq # <<>> THEN Id(idEq)
       ELSE IF d # <<>> THEN Id(d)
       ELSE NoId

SchemeChars == {"f", "i", "l", "e", "d", "A", "r", "v", "g", "o", "c", "m", "h", "t", "p", "s"}

\* new URL(url) without a base: a scheme, and for https a host
IsUrl(url) ==
    \E n \in 2..Len(url) :
        /\ url[n] = ":"
        /\ url[1] \in SchemeChars
        /\ \A k \in 2..(n - 1) : url[k] \in SchemeChars \cup {"."}
        /\ SubSeq(url, 1, n - 1) = <<"h", "t", "t", "p", "s">>
              => LET rest == SubSeq(url, n + 1, Len(url))
                 IN \E k \in DOMAIN rest : rest[k] # "/" /\ rest[k] # "?"
                        /\ \A j \in 1..(k - 1) : rest[j] = "/"

\* tempUrl.searchParams.get('id')
SearchParamId(url) ==
    IF \A n \in DOMAIN url : url[n] # "?" THEN <<>>
    ELSE LET q == CHOOSE n \in DOMAIN url : url[n] = "?" /\ \A j \in 1..(n - 1) : url[j] # "?"
             params == split(SubSeq(url, q + 1, Len(url)), "&")
             named == {n \in DOMAIN params : HasAt(params[n], <<"i", "d", "=">>, 0)}
         IN IF named = {} THEN <<>>
            ELSE LET n == CHOOSE m \in named : \A k \in named : m <= k
                 IN SubSeq(params[n], 4, Len(params[n]))

Host == <<"d", "r", "i", "v", "e", ".", "g", "o", "o", "g", "l", "e", ".", "c", "o", "m">>

IsBareId(url) ==
    /\ Len(url) = BareIdLength
    /\ ~includes(url, <<"/">>)
    /\ ~includes(url, <<"=">>)

\* extractFileId(url) of the given edition
extractFileId(edition, url) ==
    IF edition = "local" THEN MatchPatterns(url)
    ELSE IF IsBareId(url) THEN Id(url)
    ELSE IF MatchPatterns(url).found THEN MatchPatterns(url)
    ELSE IF ~includes(url, Host) THEN NoId
    ELSE IF ~IsUrl(url)
    THEN IF edition = "github" THEN [st |-> "threw", found |-> FALSE, id |-> <<>>] ELSE NoId
    ELSE IF SearchParamId(url) # <<>> THEN Id(SearchParamId(url))
    ELSE NoId

\* addMedia hands the text of the link input to extractFileId
ExtractFileId ==
    /\ helper.fn = "extractFileId"
    /\ ~helper.done
    /\ helper' = [helper EXCEPT !.done = TRUE,
                                !.out = extractFileId(helper.input.edition, helper.input.url)]
    /\ UNCHANGED <<folderStructure, mediaData, currentFolder, selectedItems, selectionMode,
                   dom, now, hung, lastOp>>
    /\ UNCHANGED <<dragging, modal, localStorage, nextOid, timers, pressed, page>>
    /\ UNCHANGED cvars

InitLink ==
    \E edition \in Editions, url \in Links :
        StartState([fn |-> "extractFileId", input |-> [edition |-> edition, url |-> url],
                    done |-> FALSE, out |-> NoId])

NextLink == ExtractFileId

SpecLink == InitLink /\ [][NextLink]_vars

\* ============================================================ pointer events
\* The localStorage edition again, with the long press and the click taken
\* apart into the events the browser delivers: pointer down, the 500ms timer,
\* pointer move, pointer up and the click that follows it.

\* a pointer-up or pointer-move: clearLongPressTimer clears the timer whose
\* handle this.longPressTimer holds; the other pending timers stay, and each
\* has now seen a pointer-up or move after its pointer-down
clearLongPressTimer(s) ==
    LET kept == SelectSeq(s.timers, LAMBDA t : ~t.held)
    IN [s EXCEPT !.timers = [n \in 1..Len(kept) |-> [kept[n] EXCEPT !.released = TRUE]]]

\* handleMouseDown / handleTouchStart on the i-th element of the given kind:
\* the new handle overwrites this.longPressTimer
handleMouseDown(s, kind, i) ==
    LET item == ItemOf(s.dom, kind, i)
        timer == [kind |-> kind, pos |-> i, id |-> item.id, fid |-> item.folderId,
                  attached |-> TRUE, sel |-> FALSE, batch |-> 0,
                  held |-> TRUE, released |-> FALSE]
        down == [s EXCEPT !.pressed = [kind |-> kind, pos |-> i, long |-> FALSE,
                                       idle |-> ~s.mode /\ s.sel = <<>> /\ s.timers = <<>>]]
    IN IF s.mode THEN down
       ELSE [down EXCEPT !.timers =
                Append([n \in DOMAIN s.timers |-> [s.timers[n] EXCEPT !.held = FALSE]], timer)]

\* toggleItemSelection(item) for the element of a timer, which may have left
\* the document
toggleTimerItem(s, t) ==
    IF t.attached THEN toggleItemSelection(s, t.kind, t.pos)
    ELSE LET flipped == [n \in DOMAIN s.timers |->
                           IF SameElement(s.timers[n], t)
                           THEN [s.timers[n] EXCEPT !.sel = ~t.sel]
                           ELSE s.timers[n]]
         IN updateSelectionToolbar(
              IF t.sel
              THEN [s EXCEPT !.timers = flipped, !.sel = WithoutId(s.sel, t.id)]
              ELSE [s EXCEPT !.timers = flipped,
                             !.sel = Append(s.sel, [id |-> t.id, type |-> t.kind,
                                                    folderId |-> t.fid])])

PointerDown(kind, i) ==
    /\ ~hung
    /\ modal.open = "none"
    /\ ~dragging
    /\ i \in Elements(kind)
    /\ selectionMode \/ Len(timers) < MaxTimers
    /\ Becomes(handleMouseDown(Here, kind, i))
    /\ UNCHANGED <<dragging, modal, now, nextOid>>

\* mousemove / touchmove while the pointer is down
PointerMove ==
    /\ ~hung
    /\ pressed # NoPress
    /\ Becomes(clearLongPressTimer(Here))
    /\ UNCHANGED <<dragging, modal, now, nextOid>>

\* mouseup / touchend, and with click the click event on the element the
\* pointer went down on: the container's listener, then handleClick
PointerUp(click) ==
    /\ ~hung
    /\ pressed # NoPress
    /\ (click /\ selectionMode) => CanSelect(pressed.kind, pressed.pos)
    /\ LET up == [clearLongPressTimer(Here) EXCEPT !.pressed = NoPress]
       IN Becomes(IF ~click THEN up
                  ELSE IF pressed.kind = "folder" /\ ~selectionMode
                  THEN buildFolderUI(up, dom.folders[pressed.pos].id)
                  ELSE handleClick(up, pressed.kind, pressed.pos))
    /\ UNCHANGED <<dragging, modal, now, nextOid>>

\* 500ms after its pointer-down the oldest pending timer fires:
\* enterSelectionMode(item)
TimerFires ==
    /\ ~hung
    /\ timers # <<>>
    /\ LET t == Head(timers)
           s0 == [Here EXCEPT !.timers = Tail(@),
                              !.mode = TRUE,
                              !.pressed = IF pressed # NoPress /\ t.held
                                          THEN [pressed EXCEPT !.long = TRUE]
                                          ELSE pressed]
       IN /\ HasSelected(dom, t) \/ Len(selectedItems) < MaxSel
          /\ Becomes(toggleTimerItem(s0, t))
    /\ UNCHANGED <<dragging, modal, now, nextOid>>

NextPointer ==
    \/ Tick
    \/ \E kind \in {"folder", "media"}, i \in 1..MaxMedia : PointerDown(kind, i)
    \/ PointerMove
    \/ \E click \in BOOLEAN : PointerUp(click)
    \/ TimerFires
    \/ \E i \in 1..(MaxClock + 1) : ClickBreadcrumb(i)
    \/ ClickRefresh
    \/ ClickCancelOrg
    \/ \E name \in Names : CreateFolder(name)
    \/ \E fileId \in MediaIds : AddMedia(fileId)

SpecPointer == Init /\ [][NextPointer]_vars

\* ============================================================ login and logout
\* The page of the localStorage edition from DOMContentLoaded on. Every
\* MediaVault that ran initializeApp has its listeners on the document and on
\* the buttons outside the folder view until the page is loaded again; the
\* listeners inside the folder view belong to the instance that rendered it
\* last (page.owner). The variables of the tree store hold the newest instance
\* (window.mediaVault), page.vaults the older ones, oldest first.
LoginCodes == {"1", "0"}

\* the login page of a visitor without mv_isLoggedIn: no MediaVault yet
LoginPage == [loggedIn |-> FALSE, initialized |-> FALSE, gallery |-> FALSE, loginBtn |-> TRUE,
              vaults |-> <<>>, inits |-> 0, owner |-> 0, handled |-> 0]

\* the fields of one MediaVault
Vault(s) == [fs |-> s.fs, md |-> s.md, cur |-> s.cur, sel |-> s.sel, mode |-> s.mode]

\* the constructor's assignments
NewVault == [fs |-> EmptyMap, md |-> EmptyMap, cur |-> ROOT, sel |-> <<>>, mode |-> FALSE]

\* the instances whose listeners are registered, in the order they registered
Registered ==
    page.vaults \o (IF page.inits > 0 THEN <<Vault(Here)>> ELSE <<>>)

\* a handler of instance v starts on the document and the storage all share
HandlerOf(v, d, ls) ==
    [fs |-> v.fs, md |-> v.md, cur |-> v.cur, sel |-> v.sel, mode |-> v.mode,
     dom |-> d, ls |-> ls, st |-> "ok", op |-> NoCall, timers |-> <<>>, pressed |-> NoPress]

\* window.mediaVault becomes v
Newest(v) ==
    /\ folderStructure' = v.fs
    /\ mediaData' = v.md
    /\ currentFolder' = v.cur
    /\ selectedItems' = v.sel
    /\ selectionMode' = v.mode

\* logout() of one instance
logout(v) == [v EXCEPT !.sel = <<>>, !.mode = FALSE]

\* the click listeners of #confirm-create-folder, one per registered instance,
\* run in the order they were added: createFolder reads #folder-name, and
\* hideCreateFolderModal at its end clears it for the listeners that follow
RECURSIVE EachCreateFolder(_, _, _, _)
EachCreateFolder(vs, i, sh, clock) ==
    IF i > Len(vs) \/ sh.hung THEN [vaults |-> vs, sh |-> sh]
    ELSE LET s == HandlerOf(vs[i], sh.dom, sh.ls)
             t == IF trim(sh.input) = "" THEN [s EXCEPT !.st = "alert"]
                  ELSE createFolder(s, trim(sh.input), clock)
             acted == t.op.op # "none"
         IN EachCreateFolder(
                [vs EXCEPT ![i] = Vault(t)], i + 1,
                [dom |-> t.dom, ls |-> t.ls,
                 input |-> IF acted /\ t.st = "ok" THEN "" ELSE sh.input,
                 hung |-> t.st = "hung",
                 owner |-> IF acted /\ t.st \in {"ok", "threw"} /\ t.dom # sh.dom
                           THEN i ELSE sh.owner,
                 runs |-> sh.runs + 1,
                 op |-> IF acted
                        THEN [op |-> t.op.op, items |-> t.op.items, target |-> t.op.target,
                              done |-> t.op.done, st |-> t.st]
                        ELSE sh.op],
                clock)

\* what a handler of the login flow leaves alone
LoginFrame ==
    /\ UNCHANGED <<dragging, modal, now, nextOid, timers, pressed, helper>>
    /\ UNCHANGED cvars

\* the listener of DOMContentLoaded: the page is loaded (again)
DOMContentLoaded ==
    /\ IF page.loggedIn
       THEN LET s == Started(localStorage)
            IN /\ Newest(Vault(s))
               /\ dom' = s.dom
               /\ hung' = (s.st = "hung")
               /\ page' = OnePage
       ELSE /\ Newest(NewVault)
            /\ dom' = EmptyDom
            /\ hung' = FALSE
            /\ page' = LoginPage
    /\ dragging' = FALSE
    /\ modal' = NoModal
    /\ timers' = <<>>
    /\ pressed' = NoPress
    /\ lastOp' = NoOp
    /\ UNCHANGED <<localStorage, now, nextOid, helper>>
    /\ UNCHANGED cvars

\* a click on #login-btn (or Enter in #access-code) with the code typed in
ClickLoginBtn(code) ==
    /\ ~hung
    /\ ~page.gallery
    /\ page.loginBtn
    /\ page.inits < MaxVaults
    /\ IF code = "1"
       THEN LET s == Started(localStorage)
            IN /\ Newest(Vault(s))
               /\ dom' = s.dom
               /\ hung' = (s.st = "hung")
               /\ page' = [page EXCEPT !.loggedIn = TRUE, !.gallery = TRUE,
                                       !.initialized = TRUE,
                                       !.vaults = Registered,
                                       !.inits = @ + 1,
                                       !.owner = IF s.st = "ok" THEN page.inits + 1 ELSE @,
                                       !.handled = 1]
       ELSE /\ UNCHANGED <<folderStructure, mediaData, currentFolder, selectedItems,
                           selectionMode, dom, hung>>
            /\ page' = [page EXCEPT !.handled = 1]
    /\ lastOp' = NoOp
    /\ UNCHANGED localStorage
    /\ LoginFrame

\* a click on #logout-btn: every registered instance runs logout()
ClickLogoutBtn ==
    /\ Idle
    /\ page.gallery
    /\ page.inits > 0
    /\ LET vs == [i \in DOMAIN Registered |-> logout(Registered[i])]
       IN /\ Newest(vs[Len(vs)])
          /\ page' = [page EXCEPT !.loggedIn = FALSE, !.gallery = FALSE,
                                  !.initialized = FALSE,
                                  !.vaults = SubSeq(vs, 1, Len(vs) - 1),
                                  !.handled = Len(vs)]
    /\ lastOp' = NoOp
    /\ UNCHANGED <<dom, localStorage, hung>>
    /\ LoginFrame

\* a click on #confirm-create-folder with name typed into #folder-name
ConfirmCreateFolder(name) ==
    /\ Idle
    /\ page.gallery
    /\ page.inits > 0
    /\ LET r == EachCreateFolder(Registered, 1,
                                 [dom |-> dom, ls |-> localStorage, input |-> name,
                                  hung |-> FALSE, owner |-> page.owner, runs |-> 0,
                                  op |-> NoOp], now)
           n == Len(r.vaults)
       IN /\ \A k \in 1..n : \A f \in DOMAIN r.vaults[k].fs :
                Len(r.vaults[k].fs[f].children) <= MaxChildren
          /\ Newest(r.vaults[n])
          /\ dom' = r.sh.dom
          /\ localStorage' = r.sh.ls
          /\ hung' = r.sh.hung
          /\ lastOp' = r.sh.op
          /\ page' = [page EXCEPT !.vaults = SubSeq(r.vaults, 1, n - 1),
                                  !.owner = r.sh.owner,
                                  !.handled = r.sh.runs]
    /\ LoginFrame

\* a click on the i-th folder item: the listener on #folders-container is the
\* one the last buildFolderUI added, that of the instance that rendered
ClickFolderOf(i) ==
    /\ Idle
    /\ page.gallery
    /\ page.owner \in DOMAIN Registered
    /\ i \in DOMAIN dom.folders
    /\ ~Registered[page.owner].mode
    /\ LET t == buildFolderUI(HandlerOf(Registered[page.owner], dom, localStorage),
                              dom.folders[i].id)
           vs == [Registered EXCEPT ![page.owner] = Vault(t)]
       IN /\ Newest(vs[Len(vs)])
          /\ dom' = t.dom
          /\ hung' = (t.st = "hung")
          /\ page' = [page EXCEPT !.vaults = SubSeq(vs, 1, Len(vs) - 1), !.handled = 1]
    /\ lastOp' = NoOp
    /\ UNCHANGED localStorage
    /\ LoginFrame

InitLogin ==
    /\ folderStructure = NewVault.fs
    /\ mediaData = NewVault.md
    /\ currentFolder = NewVault.cur
    /\ selectedItems = NewVault.sel
    /\ selectionMode = NewVault.mode
    /\ dom = EmptyDom
    /\ localStorage = [has |-> FALSE, fs |-> EmptyMap, md |-> EmptyMap]
    /\ hung = FALSE
    /\ dragging = FALSE
    /\ modal = NoModal
    /\ now = 1
    /\ nextOid = 1
    /\ lastOp = NoOp
    /\ timers = <<>>
    /\ pressed = NoPress
    /\ helper = NoFn
    /\ page = LoginPage
    /\ pc = "ready"
    /\ userId = NULL
    /\ remote = NoDoc
    /\ backup = NoDoc
    /\ syncing = FALSE
    /\ saves = <<>>
    /\ loads = <<>>
    /\ listening = FALSE
    /\ inbox = FALSE
    /\ lastWritten = 0
    /\ events = 0
    /\ online = TRUE
    /\ netListener = FALSE
    /\ resync = FALSE
    /\ signIn = "pending"
    /\ others = NoDoc
    /\ lastSaved = NoSave
    /\ madeOffline = {}

NextLogin ==
    \/ Tick
    \/ DOMContentLoaded
    \/ \E code \in LoginCodes : ClickLoginBtn(code)
    \/ ClickLogoutBtn
    \/ \E name \in Names \cup {""} : ConfirmCreateFolder(name)
    \/ \E i \in 1..MaxChildren : ClickFolderOf(i)

SpecLogin == InitLogin /\ [][NextLogin]_vars

\* ============================================================ Firebase edition
\* The tree of another tab of the same browser (same anonymous user): the
\* default tree, or root with one folder.
OtherDocs ==
    { [fs |-> getDefaultFolderStructure, md |-> getDefaultMediaData],
      [fs |-> (ROOT :> [name |-> "Home", children |-> <<"folder-1">>, parent |-> NULL])
                @@ ("folder-1" :> [name |-> "Trips", children |-> <<>>, parent |-> ROOT]),
       md |-> ("folder-1" :> <<>>)] }

\* docRef.set(data, {merge: true}) on a map field: an empty map replaces the
\* field; otherwise each key of the new map is written and every other key of
\* the stored map stays. Folder records carry all their fields and arrays are
\* written whole, so a written key takes the new value.
MergeMap(old, new) ==
    IF DOMAIN new = {} THEN new
    ELSE [k \in DOMAIN old \cup DOMAIN new |-> IF k \in DOMAIN new THEN new[k] ELSE old[k]]

Merge(doc, data) ==
    IF ~doc.exists
    THEN [exists |-> TRUE, fs |-> data.fs, md |-> data.md, lastUpdated |-> data.lastUpdated]
    ELSE [exists |-> TRUE, fs |-> MergeMap(doc.fs, data.fs), md |-> MergeMap(doc.md, data.md),
          lastUpdated |-> data.lastUpdated]

FbHere == [fs |-> folderStructure, md |-> mediaData, cur |-> currentFolder,
           sel |-> selectedItems, mode |-> selectionMode, dom |-> dom,
           ls |-> localStorage, st |-> "ok", op |-> NoCall,
           timers |-> timers, pressed |-> pressed,
           pc |-> pc, uid |-> userId, bk |-> backup, sync |-> syncing, saves |-> saves,
           loads |-> loads, listening |-> listening, inbox |-> inbox,
           net |-> netListener, resync |-> resync]

FbBecomes(s) ==
    /\ Assign(s)
    /\ page' = page
    /\ pc' = s.pc
    /\ userId' = s.uid
    /\ backup' = s.bk
    /\ syncing' = s.sync
    /\ saves' = s.saves
    /\ loads' = s.loads
    /\ listening' = s.listening
    /\ inbox' = s.inbox
    /\ netListener' = s.net
    /\ resync' = s.resync
    /\ UNCHANGED <<dragging, modal, nextOid>>

saveToLocalBackup(s, clock) ==
    [s EXCEPT !.bk = [exists |-> TRUE, fs |-> s.fs, md |-> s.md, lastUpdated |-> clock]]

loadFromLocalBackup(s) ==
    IF s.bk.exists THEN [s EXCEPT !.fs = s.bk.fs, !.md = s.bk.md] ELSE s

\* '' is 0
getLocalTimestamp(bk) == IF bk.exists THEN bk.lastUpdated ELSE 0

\* startRealtimeUpdates: onSnapshot delivers a first snapshot once attached
startRealtimeUpdates(s) ==
    IF s.uid = NULL THEN s ELSE [s EXCEPT !.listening = TRUE, !.inbox = TRUE]

\* initializeApp after its await; setupNetworkListener is its last statement
initializeApp(s) ==
    LET t == buildFolderUI([startRealtimeUpdates(s) EXCEPT !.pc = "ready"], ROOT)
    IN IF t.st = "ok" THEN [t EXCEPT !.net = TRUE] ELSE t

\* what runs when an awaited call returns to its caller
Continue(s, k) ==
    CASE k = "createFolder" -> buildFolderUI(s, s.cur)
      [] k = "deleteSelectedItems" -> Then(buildFolderUI(s, s.cur), cancelSelection)
      [] k = "refreshFromCloud" -> buildFolderUI(s, s.cur)
      [] k = "initializeApp" -> initializeApp(s)
      [] OTHER -> s

\* saveDataToFirebase up to its await: the data is read when set() is called
saveDataToFirebase(s, clock, k) ==
    IF s.uid = NULL
    THEN Continue(saveToLocalBackup(s, clock), k)
    ELSE [s EXCEPT !.sync = TRUE,
                   !.saves = Append(@, [data |-> [fs |-> s.fs, md |-> s.md, lastUpdated |-> clock],
                                        k |-> k, loadsAtCall |-> s.loads]),
                   !.inbox = @ \/ s.listening]

\* saveDataToFirebase after its await, then its caller
saveSettled(s, clock, k) ==
    Continue([saveToLocalBackup(s, clock) EXCEPT !.sync = FALSE], k)

\* loadDataFromFirebase that drops the response when a save is under way
loadDataFromFirebase_guarded(s, doc, outcome, clock, k) ==
    LET call == [op |-> "loadDataFromFirebase", items |-> <<>>, done |-> {},
                 target |-> IF outcome = "throws" THEN "failed"
                            ELSE IF doc.exists THEN "loaded" ELSE "created"]
        s0 == [s EXCEPT !.op = call]
    IN IF outcome = "throws" THEN Continue(loadFromLocalBackup(s0), k)
       ELSE IF doc.exists
       THEN IF s.sync THEN Continue(s0, k)
            ELSE Continue([s0 EXCEPT !.fs = doc.fs, !.md = doc.md], k)
       ELSE saveDataToFirebase([s0 EXCEPT !.fs = getDefaultFolderStructure,
                                          !.md = getDefaultMediaData], clock, k)

\* loadDataFromFirebase after docRef.get(); k is the caller that awaits it
loadDataFromFirebase(s, doc, outcome, clock, k) ==
    LET call == [op |-> "loadDataFromFirebase", items |-> <<>>, done |-> {},
                 target |-> IF outcome = "throws" THEN "failed"
                            ELSE IF doc.exists THEN "loaded" ELSE "created"]
        s0 == [s EXCEPT !.op = call]
    IN IF outcome = "throws" THEN Continue(loadFromLocalBackup(s0), k)
       ELSE IF doc.exists THEN Continue([s0 EXCEPT !.fs = doc.fs, !.md = doc.md], k)
       ELSE saveDataToFirebase([s0 EXCEPT !.fs = getDefaultFolderStructure,
                                          !.md = getDefaultMediaData], clock, k)

\* the onSnapshot callback
onSnapshot(s, doc) ==
    LET s0 == [s EXCEPT !.inbox = FALSE,
                        !.op = [op |-> "onSnapshot", items |-> <<>>, done |-> {}, target |-> NULL]]
    IN IF doc.exists /\ doc.lastUpdated # getLocalTimestamp(s.bk) /\ ~s.sync
       THEN buildFolderUI([s0 EXCEPT !.fs = doc.fs, !.md = doc.md], s0.cur)
       ELSE s0

createFolderFb(s, name, clock) ==
    LET folderId == FolderIdAt(clock)
        fs1 == Put(s.fs, folderId, [name |-> name, parent |-> s.cur, children |-> <<>>])
        call == [op |-> "createFolder", target |-> s.cur, done |-> {},
                 items |-> <<[type |-> "folder", id |-> folderId, folderId |-> folderId]>>]
    IN IF s.cur \notin DOMAIN fs1
       THEN [s EXCEPT !.fs = fs1, !.st = "threw", !.op = call]
       ELSE saveDataToFirebase(
                [s EXCEPT !.fs = [fs1 EXCEPT ![s.cur].children = Append(@, folderId)],
                          !.md = Put(s.md, folderId, <<>>),
                          !.op = call], clock, "createFolder")

deleteSelectedItemsFb(s, clock) ==
    IF Len(s.sel) = 0 THEN s
    ELSE LET s0 == [s EXCEPT !.op = [op |-> "deleteSelectedItems",
                                     items |-> s.sel, target |-> NULL, done |-> {}]]
             s1 == DeleteEach(s0, s.sel, 1)
         IN Then(s1, LAMBDA t : saveDataToFirebase(t, clock, "deleteSelectedItems"))

\* ------------------------------------------------------------ actions
InitFirebase ==
    /\ folderStructure = EmptyMap
    /\ mediaData = EmptyMap
    /\ currentFolder = ROOT
    /\ selectedItems = <<>>
    /\ selectionMode = FALSE
    /\ dom = EmptyDom
    /\ hung = FALSE
    /\ now = 1
    /\ lastOp = NoOp
    /\ pc = "boot"
    /\ userId = NULL
    /\ remote = NoDoc
    /\ backup = NoDoc
    /\ syncing = FALSE
    /\ saves = <<>>
    /\ loads = <<>>
    /\ listening = FALSE
    /\ inbox = FALSE
    /\ lastWritten = 0
    /\ events = 0
    /\ online = TRUE
    /\ netListener = FALSE
    /\ resync = FALSE
    /\ signIn = "pending"
    /\ others = NoDoc
    /\ lastSaved = NoSave
    /\ madeOffline = {}
    /\ dragging = FALSE
    /\ modal = NoModal
    /\ localStorage = [has |-> FALSE, fs |-> EmptyMap, md |-> EmptyMap]
    /\ nextOid = 1
    /\ timers = <<>>
    /\ pressed = NoPress
    /\ helper = NoFn
    /\ page = OnePage

FbTick ==
    /\ now < MaxClock
    /\ now' = now + 1
    /\ lastOp' = NoOp
    /\ UNCHANGED <<folderStructure, mediaData, currentFolder, selectedItems, selectionMode,
                   dom, hung>>
    /\ UNCHANGED cvars
    /\ UNCHANGED lvars

\* onAuthStateChanged with a user, or signInAnonymously succeeding
SignedIn ==
    /\ userId = NULL
    /\ signIn = "pending"
    /\ signIn' = "signedIn"
    /\ FbBecomes([FbHere EXCEPT !.uid = "u1"])
    /\ UNCHANGED <<now, remote, lastWritten, events, online, others, lastSaved, madeOffline>>

\* firebase.initializeApp throws, or signInAnonymously is rejected: the error
\* is logged and this.userId stays null
SignInFails ==
    /\ userId = NULL
    /\ signIn = "pending"
    /\ signIn' = "failed"
    /\ FbBecomes(FbHere)
    /\ UNCHANGED <<now, remote, lastWritten, events, online, others, lastSaved, madeOffline>>

\* initializeApp finds this.userId set and awaits loadDataFromFirebase; until
\* then it re-arms its 500ms timer
InitializeApp ==
    /\ pc = "boot"
    /\ userId # NULL
    /\ FbBecomes([FbHere EXCEPT !.pc = "init", !.loads = <<"initializeApp">>])
    /\ UNCHANGED <<now, remote, lastWritten, events, online, signIn, others, lastSaved,
                   madeOffline>>

\* docRef.get() settles: with the document, or by throwing
LoadSettles(outcome) ==
    /\ loads # <<>>
    /\ ~hung
    /\ outcome = "resolves" => online
    /\ Len(saves) < MaxSaves
    /\ FbBecomes(loadDataFromFirebase([FbHere EXCEPT !.loads = Tail(@)], remote, outcome,
                                      now, Head(loads)))
    /\ lastSaved' = [lastSaved EXCEPT !.racing = IF @ > 0 THEN @ - 1 ELSE 0]
    /\ UNCHANGED <<now, remote, lastWritten, events, online, signIn, others, madeOffline>>

\* docRef.set() settles: the write reached the document, or it was rejected.
\* A write of a page that has been left only changes the document.
SaveSettles(ok) ==
    /\ saves # <<>>
    /\ ~hung
    /\ ok => online
    /\ LET sv == Head(saves)
           call == [op |-> "saveDataToFirebase", items |-> <<>>, done |-> {},
                    target |-> IF ok THEN "saved" ELSE "failed"]
           s0 == [FbHere EXCEPT !.saves = Tail(@), !.op = call]
       IN /\ remote' = IF ok THEN Merge(remote, sv.data) ELSE remote
          /\ lastWritten' = IF ok THEN sv.data.lastUpdated ELSE lastWritten
          /\ lastSaved' = IF ok THEN [exists |-> TRUE, fs |-> sv.data.fs, md |-> sv.data.md,
                                      k |-> sv.k, racing |-> Len(loads)]
                          ELSE lastSaved
          /\ FbBecomes(IF sv.k = "gone" THEN s0 ELSE saveSettled(s0, now, sv.k))
    /\ UNCHANGED <<now, events, online, signIn, others, madeOffline>>

\* the listener is called with the document
Notify ==
    /\ listening
    /\ inbox
    /\ online
    /\ ~hung
    /\ FbBecomes(onSnapshot(FbHere, remote))
    /\ UNCHANGED <<now, remote, lastWritten, events, online, signIn, others, lastSaved,
                   madeOffline>>

\* another tab of the same browser (same user, same clock) saves its tree
OtherTabSaves(doc) ==
    /\ events < MaxEvents
    /\ events' = events + 1
    /\ online
    /\ remote.exists
    /\ remote' = Merge(remote, [fs |-> doc.fs, md |-> doc.md, lastUpdated |-> now])
    /\ inbox' = (inbox \/ listening)
    /\ lastSaved' = NoSave
    /\ lastOp' = NoOp
    /\ UNCHANGED <<folderStructure, mediaData, currentFolder, selectedItems, selectionMode,
                   dom, hung, now, pc, userId, backup, syncing, saves, loads, listening,
                   lastWritten, online, netListener, resync, signIn, others, madeOffline>>
    /\ UNCHANGED lvars

\* another installation signs in anonymously, so under a uid of its own, and
\* saves its tree to the document of that uid
OtherDeviceSaves(doc) ==
    /\ events < MaxEvents
    /\ events' = events + 1
    /\ others' = Merge(others, [fs |-> doc.fs, md |-> doc.md, lastUpdated |-> now])
    /\ lastOp' = NoOp
    /\ UNCHANGED <<folderStructure, mediaData, currentFolder, selectedItems, selectionMode,
                   dom, hung, now, pc, userId, remote, backup, syncing, saves, loads,
                   listening, inbox, lastWritten, online, netListener, resync, signIn,
                   lastSaved, madeOffline>>
    /\ UNCHANGED lvars

\* window 'offline': only the status bar changes
GoOffline ==
    /\ events < MaxEvents
    /\ events' = events + 1
    /\ online
    /\ online' = FALSE
    /\ lastOp' = NoOp
    /\ UNCHANGED <<folderStructure, mediaData, currentFolder, selectedItems, selectionMode,
                   dom, hung, now, pc, userId, remote, backup, syncing, saves, loads,
                   listening, inbox, lastWritten, netListener, resync, signIn, others,
                   lastSaved, madeOffline>>
    /\ UNCHANGED lvars

\* window 'online': the listener, if installed, arms its 1000ms timer
GoOnline ==
    /\ ~online
    /\ online' = TRUE
    /\ resync' = (resync \/ (netListener /\ ~hung))
    /\ lastOp' = NoOp
    /\ UNCHANGED <<folderStructure, mediaData, currentFolder, selectedItems, selectionMode,
                   dom, hung, now, pc, userId, remote, backup, syncing, saves, loads,
                   listening, inbox, lastWritten, events, netListener, signIn, others,
                   lastSaved, madeOffline>>
    /\ UNCHANGED lvars

\* the timer of the 'online' listener fires: saveDataToFirebase()
Resync ==
    /\ resync
    /\ ~hung
    /\ Len(saves) < MaxSaves
    /\ FbBecomes(saveDataToFirebase([FbHere EXCEPT !.resync = FALSE], now, "online"))
    /\ UNCHANGED <<now, remote, lastWritten, events, online, signIn, others, lastSaved,
                   madeOffline>>

Usable == pc = "ready" /\ ~hung

FbClickFolderItem(i) ==
    /\ Usable
    /\ i \in DOMAIN dom.folders
    /\ selectionMode => CanSelect("folder", i)
    /\ FbBecomes(IF selectionMode THEN toggleItemSelection(FbHere, "folder", i)
                 ELSE buildFolderUI(FbHere, dom.folders[i].id))
    /\ UNCHANGED <<now, remote, lastWritten, events, online, signIn, others, lastSaved,
                   madeOffline>>

FbClickBreadcrumb(i) ==
    /\ Usable
    /\ i \in DOMAIN dom.crumbs
    /\ FbBecomes(buildFolderUI(FbHere, dom.crumbs[i]))
    /\ UNCHANGED <<now, remote, lastWritten, events, online, signIn, others, lastSaved,
                   madeOffline>>

\* the floating button's menu (narrow windows): "select-mode"
FbFabSelectMode ==
    /\ Usable
    /\ ~selectionMode
    /\ FbBecomes([FbHere EXCEPT !.mode = TRUE])
    /\ UNCHANGED <<now, remote, lastWritten, events, online, signIn, others, lastSaved,
                   madeOffline>>

FbCreateFolder(name) ==
    /\ events < MaxEvents
    /\ Usable
    /\ Len(saves) < MaxSaves
    /\ FbBecomes(createFolderFb(FbHere, name, now))
    /\ events' = events + 1
    /\ madeOffline' = IF ~online /\ createFolderFb(FbHere, name, now).st = "ok"
                      THEN madeOffline \cup {FolderIdAt(now)}
                      ELSE madeOffline
    /\ UNCHANGED <<now, remote, lastWritten, online, signIn, others, lastSaved>>

\* the delete button of a folder item, confirm() answered yes
FbClickFolderOptionDelete(i) ==
    /\ events < MaxEvents
    /\ Usable
    /\ Len(saves) < MaxSaves
    /\ i \in DOMAIN dom.folders
    /\ CanSelect("folder", i)
    /\ LET t == deleteSelectedItemsFb(IF selectionMode
                                      THEN toggleItemSelection(FbHere, "folder", i)
                                      ELSE enterSelectionMode(FbHere, "folder", i), now)
       IN /\ FbBecomes(t)
          /\ madeOffline' = madeOffline \ t.op.done
    /\ events' = events + 1
    /\ UNCHANGED <<now, remote, lastWritten, online, signIn, others, lastSaved>>

\* refreshFromCloud up to its await
FbClickRefresh ==
    /\ events < MaxEvents
    /\ Usable
    /\ Len(loads) < MaxLoads
    /\ FbBecomes([FbHere EXCEPT !.loads = Append(@, "refreshFromCloud")])
    /\ events' = events + 1
    /\ UNCHANGED <<now, remote, lastWritten, online, signIn, others, lastSaved, madeOffline>>

\* the page is loaded again: a new MediaVaultCloud; writes already sent may
\* still reach the document, nothing awaits them any more
FbReload ==
    /\ events < MaxEvents
    /\ FbBecomes([FbHere EXCEPT !.fs = EmptyMap, !.md = EmptyMap, !.cur = ROOT, !.sel = <<>>,
                                !.mode = FALSE, !.dom = EmptyDom, !.pc = "boot", !.uid = NULL,
                                !.sync = FALSE, !.loads = <<>>, !.listening = FALSE,
                                !.inbox = FALSE, !.net = FALSE, !.resync = FALSE,
                                !.saves = [i \in 1..Len(saves) |-> [saves[i] EXCEPT !.k = "gone"]]])
    /\ events' = events + 1
    /\ signIn' = "pending"
    /\ lastSaved' = [lastSaved EXCEPT !.racing = 0]
    /\ UNCHANGED <<now, remote, lastWritten, online, others, madeOffline>>

NextFirebase ==
    \/ FbTick
    \/ SignedIn
    \/ SignInFails
    \/ InitializeApp
    \/ \E outcome \in {"resolves", "throws"} : LoadSettles(outcome)
    \/ \E ok \in BOOLEAN : SaveSettles(ok)
    \/ Notify
    \/ \E doc \in OtherDocs : OtherTabSaves(doc)
    \/ \E doc \in OtherDocs : OtherDeviceSaves(doc)
    \/ GoOffline
    \/ GoOnline
    \/ Resync
    \/ \E i \in 1..MaxChildren : FbClickFolderItem(i)
    \/ \E i \in 1..(MaxClock + 1) : FbClickBreadcrumb(i)
    \/ FbFabSelectMode
    \/ \E name \in Names : FbCreateFolder(name)
    \/ \E i \in 1..MaxChildren : FbClickFolderOptionDelete(i)
    \/ FbClickRefresh
    \/ FbReload

SpecFirebase == InitFirebase /\ [][NextFirebase]_vars

\* ------------------------------------------------------------ claims
InSeq(x, seq) == \E i \in 1..Len(seq) : seq[i] = x
Count(x, seq) == Cardinality({i \in 1..Len(seq) : seq[i] = x})

\* F and everything reachable from F through children lists
RECURSIVE Reach(_, _, _)
Reach(fs, frontier, seen) ==
    IF frontier = {} THEN seen
    ELSE LET f == CHOOSE x \in frontier : TRUE
             kids == IF f \in DOMAIN fs THEN Range(fs[f].children) ELSE {}
         IN Reach(fs, (frontier \cup kids) \ (seen \cup {f}), seen \cup {f})
Subtree(fs, F) == Reach(fs, {F}, {}) \cap DOMAIN fs

\* C1: every folder is listed by its parent exactly when that parent exists and
\* the folder is not root, and every listed child exists and points back.
C1_ParentChildConsistent ==
    /\ \A F \in DOMAIN folderStructure :
          LET p == folderStructure[F].parent
          IN (p \in DOMAIN folderStructure /\ InSeq(F, folderStructure[p].children))
                <=> (p \in DOMAIN folderStructure /\ F # ROOT)
    /\ \A P \in DOMAIN folderStructure : \A c \in Range(folderStructure[P].children) :
          c \in DOMAIN folderStructure /\ folderStructure[c].parent = P

ParentChainEndsAtRoot(fs, F) ==
    LET p == getFolderPath(fs, F) IN p.halts /\ Len(p.path) > 0 /\ p.path[1].id = ROOT

IsCyclicMove(op, fs) ==
    /\ op.op = "moveSelectedItemsToFolder"
    /\ \E k \in DOMAIN op.items :
          /\ op.items[k].type = "folder"
          /\ op.items[k].id \in DOMAIN fs
          /\ op.target \in Subtree(fs, op.items[k].id)

AllChainsEndAtRoot(fs) == \A F \in DOMAIN fs : ParentChainEndsAtRoot(fs, F)

\* C2: a move of a folder into itself or one of its descendants leaves the
\* folder map unchanged, and no move turns a tree whose parent chains all end
\* at root into one with a folder that is its own ancestor or cut off from root.
C2_CyclicMoveRejected ==
    [][/\ IsCyclicMove(lastOp', folderStructure) => folderStructure' = folderStructure
       /\ (lastOp'.op = "moveSelectedItemsToFolder" /\ AllChainsEndAtRoot(folderStructure))
             => AllChainsEndAtRoot(folderStructure')]_vars

\* C4: getFolderPath(id) ends, starts at root, ends at id, and each element is
\* the parent of the next.
C4_PathRootFirst ==
    \A id \in DOMAIN folderStructure :
        LET p == getFolderPath(folderStructure, id)
        IN /\ p.halts
           /\ Len(p.path) > 0
           /\ p.path[1].id = ROOT
           /\ p.path[Len(p.path)].id = id
           /\ \A i \in 1..Len(p.path) :
                 /\ p.path[i].id \in DOMAIN folderStructure
                 /\ p.path[i].name = folderStructure[p.path[i].id].name
           /\ \A i \in 1..(Len(p.path) - 1) :
                 folderStructure[p.path[i + 1].id].parent = p.path[i].id

DeletedFolders(op, fs) == op.done \cap DOMAIN fs
DeletedFrom(op) ==
    {op.items[k].folderId : k \in {j \in DOMAIN op.items : op.items[j].type = "media"}}
DeletedTrees(op, fs) == UNION {Subtree(fs, F) : F \in DeletedFolders(op, fs)}

\* C3: once deleteFolder(F) has returned (lastOp.done holds every such F, the
\* recursive calls included), F and its descendants are in neither map, F's
\* former parent does not list F, and every other folder is still there with
\* the media list it had.
C3_DeleteFolderCascade ==
    [][lastOp'.op = "deleteSelectedItems"
        => LET gone == DeletedTrees(lastOp', folderStructure)
           IN /\ gone \cap DOMAIN folderStructure' = {}
              /\ gone \cap DOMAIN mediaData' = {}
              /\ \A F \in DeletedFolders(lastOp', folderStructure) :
                    LET p == folderStructure[F].parent
                    IN p \in DOMAIN folderStructure'
                          => ~InSeq(F, folderStructure'[p].children)
              /\ \A G \in DOMAIN folderStructure \ gone :
                    /\ G \in DOMAIN folderStructure'
                    /\ (G \in DOMAIN mediaData /\ G \notin DeletedFrom(lastOp'))
                          => (G \in DOMAIN mediaData' /\ mediaData'[G] = mediaData[G])]_vars

\* one selected folder was deleted together with a folder below it, and a
\* folder that stayed still has its media
C3_Witness ==
    /\ lastOp.op = "deleteSelectedItems"
    /\ lastOp.st = "ok"
    /\ Len(lastOp.items) = 1
    /\ Cardinality(lastOp.done) = 2
    /\ lastOp.done \cap DOMAIN folderStructure = {}
    /\ \E G \in DOMAIN folderStructure :
          G \in DOMAIN mediaData /\ Len(mediaData[G]) > 0

\* C6: createFolder uses an id that is not yet a key of the folder map, the
\* current folder lists it exactly once, the new record has the current folder
\* as parent, its media list is empty, and no other record changes.
C6_CreateFolderFresh ==
    [][lastOp'.op = "createFolder"
        => LET id == lastOp'.items[1].id
               P == lastOp'.target
           IN /\ id \notin DOMAIN folderStructure
              /\ lastOp'.st # "threw"
              /\ id \in DOMAIN folderStructure'
              /\ folderStructure'[id].parent = P
              /\ P \in DOMAIN folderStructure'
              /\ Count(id, folderStructure'[P].children) = 1
              /\ id \in DOMAIN mediaData' /\ mediaData'[id] = <<>>
              /\ \A G \in DOMAIN folderStructure \ {P} :
                    G \in DOMAIN folderStructure' /\ folderStructure'[G] = folderStructure[G]]_vars

AllMedia == {<<f, i>> : f \in DOMAIN mediaData, i \in 1..MaxMedia + MaxSel}
Slots == {sl \in AllMedia : sl[2] <= Len(mediaData[sl[1]])}

\* C7: no media item is in two lists (or twice in one), and no list holds two
\* items with the same id.
C7_MediaInOneList ==
    \A a, b \in Slots :
        a # b => /\ mediaData[a[1]][a[2]].oid # mediaData[b[1]][b[2]].oid
                 /\ a[1] = b[1] => mediaData[a[1]][a[2]].id # mediaData[b[1]][b[2]].id

\* C5: once the application has initialized, the folder map holds root and
\* root's parent is null.
C5_RootAlwaysExists ==
    pc = "ready" => (ROOT \in DOMAIN folderStructure /\ folderStructure[ROOT].parent = NULL)

\* C8: a load that fails (get() throws, or there is no document) ends without
\* an exception and with the default snapshot in memory.
C8_LoadFailureGivesDefault ==
    (lastOp.op = "loadDataFromFirebase" /\ lastOp.target \in {"failed", "created"})
        => /\ lastOp.st = "ok"
           /\ folderStructure = getDefaultFolderStructure
           /\ mediaData = getDefaultMediaData

SaveInProgress == \E i \in DOMAIN saves : saves[i].k # "gone"

\* C9: a snapshot event for an existing document replaces the in-memory maps by
\* the remote ones exactly when the remote lastUpdated differs from the one
\* this client last wrote to the document and no save is in progress;
\* otherwise the maps stay as they are.
C9_ReplaceIffForeignAndIdle ==
    [][(lastOp'.op = "onSnapshot" /\ remote.exists)
        => IF remote.lastUpdated # lastWritten /\ ~SaveInProgress
           THEN folderStructure' = remote.fs /\ mediaData' = remote.md
           ELSE folderStructure' = folderStructure /\ mediaData' = mediaData]_vars

\* C10: when a save completes, the document's folderStructure and mediaData
\* are exactly the snapshot that save was given.
C10_LaterSaveOverwrites ==
    [][(lastOp'.op = "saveDataToFirebase" /\ lastOp'.target = "saved")
        => /\ remote'.fs = Head(saves).data.fs
           /\ remote'.md = Head(saves).data.md]_vars

\* nothing is in flight and no timer or event is waiting: the application
\* takes no further step until the user or the network does something
Quiet ==
    /\ loads = <<>>
    /\ saves = <<>>
    /\ ~resync
    /\ ~(listening /\ inbox /\ online)
    /\ signIn # "pending"
    /\ ~(pc = "boot" /\ userId # NULL)

\* C11: once another installation has saved and this client, online and
\* running (initializeApp has run to its end), has nothing left to process, the
\* folders and media lists the other installation saved are in this client's
\* memory.
C11_ChangeReachesOtherDevices ==
    (Quiet /\ online /\ netListener /\ listening /\ ~hung /\ others.exists)
        => /\ DOMAIN others.fs \subseteq DOMAIN folderStructure
           /\ DOMAIN others.md \subseteq DOMAIN mediaData

\* C12: once the client is back online, its resynchronizing save has completed
\* and nothing is left to process, every folder created while offline (and not
\* deleted by the user since) is in the remote document.
C12_OfflineChangesReachRemote ==
    (Quiet /\ online /\ netListener /\ ~hung /\ lastSaved.exists /\ lastSaved.k = "online")
        => madeOffline \subseteq DOMAIN remote.fs

\* C13: a load that is performed after a save has completed, with no other
\* writer in between, puts exactly the saved folder map and media map in memory.
C13_SaveLoadRoundTrip ==
    [][(/\ lastOp'.op = "loadDataFromFirebase"
        /\ lastOp'.target = "loaded"
        /\ lastSaved.exists
        /\ lastSaved.racing = 0)
        => (folderStructure' = lastSaved.fs /\ mediaData' = lastSaved.md)]_vars

\* C14: once sign-in has failed and nothing is left to process, the
\* application has finished its initialization.
C14_InitCompletes ==
    (signIn = "failed" /\ Quiet) => pc = "ready"

\* C15: selectionMode is true exactly when selectedItems is not empty.
C15_SelectionModeIffSelected ==
    selectionMode <=> Len(selectedItems) > 0

\* C17: selection mode is entered by a long press only through a timer whose
\* pointer-down has had no pointer-up and no pointer-move after it.
C17_ReleaseCancelsLongPress ==
    [][(~selectionMode /\ selectionMode')
          => (timers # <<>> /\ ~Head(timers).released /\ timers' = Tail(timers))]_vars

\* C18: when a press that began in Idle has lasted 500ms and the pointer is
\* then released, with or without the click on the same node, the controller
\* is in selection mode and the node is in the selected set.
C18_LongPressSelects ==
    [][(pressed # NoPress /\ pressed.idle /\ pressed.long /\ pressed' = NoPress)
          => /\ selectionMode'
             /\ \E k \in DOMAIN selectedItems' :
                   selectedItems'[k].id = ItemOf(dom, pressed.kind, pressed.pos).id]_vars

\* C21: a rename whose target is not in the snapshot, and a delete of one
\* media item that is not in the snapshot, does not complete as a success and
\* leaves the folder map, the media map and the stored snapshot as they were;
\* a rename with a blank name changes none of the three.
C21_AbsentTargetFails ==
    [][/\ (/\ lastOp'.op = "renameSelectedItem"
           /\ lastOp'.target # ""
           /\ ~Present(folderStructure, mediaData, lastOp'.items[1]))
            => /\ lastOp'.st # "ok"
               /\ folderStructure' = folderStructure
               /\ mediaData' = mediaData
               /\ localStorage' = localStorage
       /\ (lastOp'.op = "renameSelectedItem" /\ lastOp'.target = "")
            => /\ folderStructure' = folderStructure
               /\ mediaData' = mediaData
               /\ localStorage' = localStorage
       /\ (/\ lastOp'.op = "deleteSelectedItems"
           /\ Len(lastOp'.items) = 1
           /\ lastOp'.items[1].type = "media"
           /\ ~Present(folderStructure, mediaData, lastOp'.items[1]))
            => /\ lastOp'.st # "ok"
               /\ folderStructure' = folderStructure
               /\ mediaData' = mediaData
               /\ localStorage' = localStorage]_vars

\* C22: parseCSVContent returns, for every text, the items of the reference:
\* line 1 is a header exactly when it begins with "id," in any case; every
\* other row that is not blank and has an id and a type gives one item, in
\* row order; nothing else is dropped and nothing is thrown.
C22_Reference(csvText) ==
    LET first == toLowerCase(trimChars(csvText[1]))
        rows == IF HasAt(first, HeaderMark, 0) THEN Tail(csvText) ELSE csvText
    IN [st |-> "ok", items |-> ParseRows(rows, 1)]

C22_ParseMatchesReference ==
    (helper.fn = "parseCSVContent" /\ helper.done)
        => helper.out = C22_Reference(helper.input)

\* C23: in each of the three editions extractFileId returns what the reference
\* returns and throws nothing: a text of 33 characters without "/" and "=" as
\* it is; else the id of the first of /file/d/<id>, id=<id>, /d/<id> that
\* matches; else the id parameter of a Drive link; else null.
C23_Reference(url) ==
    IF IsBareId(url) THEN Id(url)
    ELSE IF MatchPatterns(url).found THEN MatchPatterns(url)
    ELSE IF includes(url, Host) /\ IsUrl(url) /\ SearchParamId(url) # <<>>
    THEN Id(SearchParamId(url))
    ELSE NoId

C23_ExtractMatchesReference ==
    (helper.fn = "extractFileId" /\ helper.done)
        => helper.out = C23_Reference(helper.input.url)

\* C24: a snapshot event that carries the document a save of this page wrote
\* leaves the in-memory maps as they are, whether the save is still under way
\* or has completed.
C24_OwnSaveIgnored ==
    [][(/\ lastOp'.op = "onSnapshot"
        /\ lastSaved.exists
        /\ lastSaved.k # "gone"
        /\ remote.lastUpdated = lastWritten)
          => (folderStructure' = folderStructure /\ mediaData' = mediaData)]_vars

\* C25: as long as a save of this page is in flight, syncing is true and no
\* snapshot event replaces the in-memory maps, also when two saves overlap.
C25_InFlightBlocksSnapshots ==
    [][/\ SaveInProgress' => syncing'
       /\ (SaveInProgress /\ lastOp'.op = "onSnapshot")
             => (folderStructure' = folderStructure /\ mediaData' = mediaData)]_vars

\* C26: on every tree the operations can produce, the walk of getFolderPath
\* from every folder id comes to an end, and no handler is stuck in it.
C26_PathTerminates ==
    /\ ~hung
    /\ \A id \in DOMAIN folderStructure \cup {NULL} :
          getFolderPath(folderStructure, id).halts

\* C27: no two entries of the selected set carry the same item id.
C27_SelectionHasNoDuplicates ==
    \A i, j \in DOMAIN selectedItems :
        selectedItems[i].id = selectedItems[j].id => i = j

\* a step that is an operation which came to its end: no handler of the page is
\* suspended at an await, and the step is recorded, or went to another folder,
\* or changed the folder map
CompletedOperation ==
    /\ pc' = "ready"
    /\ lastOp'.st = "ok"
    /\ loads' = <<>> /\ ~SaveInProgress'
    /\ \/ lastOp'.op # "none"
       \/ currentFolder' # currentFolder
       \/ folderStructure' # folderStructure

\* C28: after every operation that has come to its end currentFolder is a key
\* of the folder map, and an operation that takes the viewed folder out of the
\* map leaves currentFolder at root.
C28_CurrentFolderExists ==
    [][CompletedOperation
         => /\ currentFolder' \in DOMAIN folderStructure'
            /\ (currentFolder \in DOMAIN folderStructure
                  /\ currentFolder \notin DOMAIN folderStructure') => currentFolder' = ROOT]_vars

\* the media items of all lists, and how often item v occurs in them
ItemsIn(md) == UNION {Range(md[f]) : f \in DOMAIN md}
Occurrences(md, v) ==
    Cardinality({sl \in {<<f, i>> : f \in DOMAIN md, i \in 1..(MaxMedia + MaxSel)} :
                    sl[2] <= Len(md[sl[1]]) /\ md[sl[1]][sl[2]] = v})

\* C29: a move to an existing target keeps the set of folder ids, every
\* folder's name, and the multiset of media items over all media lists.
C29_MoveConservesContent ==
    [][(lastOp'.op = "moveSelectedItemsToFolder" /\ lastOp'.target \in DOMAIN folderStructure)
         => /\ DOMAIN folderStructure' = DOMAIN folderStructure
            /\ \A f \in DOMAIN folderStructure :
                  folderStructure'[f].name = folderStructure[f].name
            /\ ItemsIn(mediaData') = ItemsIn(mediaData)
            /\ \A v \in ItemsIn(mediaData) :
                  Occurrences(mediaData', v) = Occurrences(mediaData, v)]_vars

\* a move has carried a folder and a media item into a folder they were not in
C29_Witness ==
    /\ lastOp.op = "moveSelectedItemsToFolder"
    /\ lastOp.st = "ok"
    /\ lastOp.target \in DOMAIN folderStructure \cap DOMAIN mediaData
    /\ \E k \in DOMAIN lastOp.items :
          /\ lastOp.items[k].type = "media"
          /\ lastOp.items[k].folderId # lastOp.target
          /\ \E i \in DOMAIN mediaData[lastOp.target] :
                mediaData[lastOp.target][i].id = lastOp.items[k].id
    /\ \E k \in DOMAIN lastOp.items :
          /\ lastOp.items[k].type = "folder"
          /\ lastOp.items[k].id \in DOMAIN folderStructure
          /\ lastOp.items[k].id # lastOp.target
          /\ folderStructure[lastOp.items[k].id].parent = lastOp.target
          /\ InSeq(lastOp.items[k].id, folderStructure[lastOp.target].children)

\* C30: at most one MediaVault has its handlers registered on the page,
\* initializeApp runs at most once per page load, and a user event is handled
\* by one handler only.
C30_SingleInstance ==
    /\ Len(Registered) <= 1
    /\ page.inits <= 1
    /\ page.handled <= 1

\* C16: a click on a node in selection mode removes the node from the selected
\* set if it is a member and appends it otherwise, leaves the other members as
\* they were, and leaves selection mode if the set becomes empty; also when
\* the view has been rendered again since the node was selected.
C16_ClickTogglesMembership ==
    [][lastOp'.op = "toggleItemSelection"
         => LET item == lastOp'.items[1]
            IN /\ IF \E k \in DOMAIN selectedItems : selectedItems[k].id = item.id
                  THEN selectedItems' = WithoutId(selectedItems, item.id)
                  ELSE selectedItems' = Append(selectedItems, item)
               /\ selectedItems' = <<>> => ~selectionMode']_vars

\* C19: a drop during a drag onto a folder T other than the current one leaves
\* every selected folder with parent T and among T's children, every selected
\* media item in T's list and not in the list it came from, the selection
\* empty and the stored snapshot equal to the one in memory; a drop on the
\* current folder or on no target (the steps that end the drag and keep the
\* selection) leaves the tree as it was, and without a drag no drop moves
\* anything.
C19_DropMovesSelection ==
    [][/\ (dragging /\ lastOp'.op = "moveSelectedItemsToFolder")
            => LET T == lastOp'.target
               IN /\ T # currentFolder
                  /\ \A k \in DOMAIN selectedItems :
                        LET item == selectedItems[k]
                        IN IF item.type = "folder"
                           THEN /\ item.id \in DOMAIN folderStructure'
                                /\ folderStructure'[item.id].parent = T
                                /\ T \in DOMAIN folderStructure'
                                /\ item.id \in Range(folderStructure'[T].children)
                           ELSE /\ T \in DOMAIN mediaData'
                                /\ FindIndex(mediaData'[T], item.id) > 0
                                /\ (item.folderId # T /\ item.folderId \in DOMAIN mediaData')
                                      => FindIndex(mediaData'[item.folderId], item.id) = 0
                  /\ selectedItems' = <<>>
                  /\ localStorage' = [has |-> TRUE, fs |-> folderStructure', md |-> mediaData']
       /\ (dragging /\ ~dragging' /\ selectedItems' = selectedItems)
            => (folderStructure' = folderStructure /\ mediaData' = mediaData)
       /\ (~dragging /\ modal.open # "move")
            => lastOp'.op # "moveSelectedItemsToFolder"]_vars

\* C20: a get() in flight leaves the queue only by settling (or with the page),
\* and a response that finds the document replaces the in-memory maps by the
\* remote ones whatever has changed in memory since the request.
C20_LoadNeverAbortedAndUnguarded ==
    [][/\ \/ loads' = loads
          \/ \E k \in {"initializeApp", "refreshFromCloud"} : loads' = Append(loads, k)
          \/ (loads # <<>> /\ loads' = Tail(loads) /\ lastOp'.op = "loadDataFromFirebase")
          \/ (pc # "boot" /\ pc' = "boot" /\ loads' = <<>>)
       /\ (lastOp'.op = "loadDataFromFirebase" /\ lastOp'.target = "loaded")
             => (folderStructure' = remote.fs /\ mediaData' = remote.md)]_vars

\* refreshFromCloud was started, then a folder was created (its save is still
\* in flight), then the response arrived: memory holds the older remote tree
\* and the new folder is gone from it
C20_Witness ==
    /\ events = 2
    /\ lastOp.op = "loadDataFromFirebase"
    /\ lastOp.target = "loaded"
    /\ lastOp.st = "ok"
    /\ loads = <<>>
    /\ folderStructure = remote.fs
    /\ \E i \in DOMAIN saves :
          /\ saves[i].k = "createFolder"
          /\ saves[i].loadsAtCall = <<"refreshFromCloud">>
          /\ \E f \in DOMAIN saves[i].data.fs : f \notin DOMAIN folderStructure

====
